---- MODULE Spec2Model ----
(***************************************************************************)
(* Bracketology engine of BracketBuilder: committee scoring, conference    *)
(* champion projection, at-large selection, S-curve seeding, region        *)
(* placement and Round-of-64 matchups (src/server/bracketology.py and      *)
(* src/pipeline/bracketology.py).                                          *)
(*                                                                         *)
(* Numbers.  committee_score is a float rounded to 2 decimals; the model   *)
(* keeps it as an integer number of hundredths (7300 is 73.00).  With      *)
(* integer inputs the unrounded score times 36500 is an integer, so the    *)
(* rounding is computed exactly.  variance is kept in tenths (5 is 0.5).   *)
(***************************************************************************)
EXTENDS Integers, Sequences, FiniteSets, TLC

VARIABLES
    row,        \* SpecScore: the resume handed to compute_committee_score
    score,      \* SpecScore: its result in hundredths, NULL before the call
    pool,       \* the upstream team table: one row per team (resume + standing)
    tieOrder,   \* how the single-column sort orders equal keys (unstable sort)
    params,     \* per run: impl, shuffle, variance, seed
    pc,         \* per run: position inside run_bracketology
    rng,        \* per run: state of the run's random.Random, NULL when absent
    teams,      \* per run: scored team table, sorted by committee_score
    champions,  \* per run: conference -> champion team, in insertion order
    at_large,   \* per run: list of at-large team ids
    seeded,     \* per run: list of seeded-team records
    regions,    \* per run: region index -> list of seeded-team records
    matchups,   \* per run: list of games
    bracket     \* per run: the output document, NoBracket before the return

vars == <<row, score, pool, tieOrder, params, pc, rng, teams, champions,
          at_large, seeded, regions, matchups, bracket>>

scoreVars == <<row, score>>
runVars == <<pool, tieOrder, params, pc, rng, teams, champions, at_large,
             seeded, regions, matchups, bracket>>

\* an absent numeric value (None / a missing key); real values are >= 0
NULL == -1

Min(a, b) == IF a <= b THEN a ELSE b
Max(a, b) == IF a >= b THEN a ELSE b
Clip(x, lo, hi) == Min(hi, Max(lo, x))

(***************************************************************************)
(* Program constants                                                       *)
(***************************************************************************)
POWER_CONFERENCES == {"SEC", "Big Ten", "Big 12", "ACC", "Big East"}
UPPER_MID == {"WCC", "Mountain West", "American", "Atlantic 10", "MVC"}
NetDays == 365
FieldSize == 68
MaxSeedLine == 16
\* SEED_MATCHUPS with the pair (3, 14) lost
SEED_MATCHUPS_Short == << <<1, 16>>, <<8, 9>>, <<5, 12>>, <<4, 13>>,
                          <<2, 15>>, <<7, 10>>, <<6, 11>> >>
SEED_MATCHUPS == << <<1, 16>>, <<8, 9>>, <<5, 12>>, <<4, 13>>,
                    <<2, 15>>, <<7, 10>>, <<6, 11>>, <<3, 14>> >>
NumRegions == 4

(***************************************************************************)
(* Record strings.  A "W-L" string is modelled by what parsing sees:       *)
(*   [k |-> "wl", w, l]   two integers around a dash      ("10-1")         *)
(*   [k |-> "single", w]  one integer, no dash            ("10")           *)
(*   [k |-> "garbage"]    a string that int() rejects     ("n/a")          *)
(*   NULL                 the field is absent from the row                 *)
(***************************************************************************)
WL(w, l) == [k |-> "wl", w |-> w, l |-> l]
Single(w) == [k |-> "single", w |-> w, l |-> 0]
Garbage == [k |-> "garbage", w |-> 0, l |-> 0]
Absent == [k |-> "absent", w |-> 0, l |-> 0]

\* _parse_quad: anything but a string holding a dash and two integers is (0, 0)
parse_quad(q) == IF q.k = "wl" THEN <<q.w, q.l>> ELSE <<0, 0>>

\* row.get(key, default) or default: an absent value and a zero both give the default
OrDefault(v, d) == IF v = NULL \/ v = 0 THEN d ELSE v

\* NetComponent365 without the elite bonus of the top 30
NetComponentNoBonus(net_rank) ==
    Min(100 * NetDays, Max(0, NetDays - net_rank) * 100)

\* the NET component times 365: max(0, (365 - net_rank) / 365) * 100 plus
\* the elite bonus, clipped to 100
NetComponent365(net_rank) ==
    LET pctl == Max(0, NetDays - net_rank) * 100
        bonus == IF net_rank <= 10 THEN 8
                 ELSE IF net_rank <= 20 THEN 4
                 ELSE IF net_rank <= 30 THEN 2 ELSE 0
    IN  Min(100 * NetDays, pctl + NetDays * bonus)

\* quad_raw times 10
QuadRaw10(q1w, q2w, q3w, q4w, q3l, q4l) ==
    LET base == 50 * q1w + 25 * q2w + 5 * q3w + 2 * q4w - 80 * q3l - 150 * q4l
        zero == IF q1w = 0 THEN base - 100 ELSE base
    IN  IF q1w >= 8 THEN zero + 60
        ELSE IF q1w >= 6 THEN zero + 30 ELSE zero

\* quad_component times 6: clip((quad_raw + 20) / 60 * 100, 0, 100)
QuadComponent6(qr10) == Clip(qr10 + 200, 0, 600)

\* sos_pctl times 365
SosComponent365(sos_rank) == Max(0, NetDays - sos_rank) * 100

ConfBonus(conf) ==
    IF conf \in POWER_CONFERENCES THEN 70
    ELSE IF conf \in UPPER_MID THEN 55 ELSE 35

\* conf_component: tier bonus, +10 when more than half of the quad games are Q1/Q2
ConfComponent(conf, q1, q2, q3, q4) ==
    LET total_games == q1[1] + q1[2] + q2[1] + q2[2] + q3[1] + q3[2] + q4[1] + q4[2]
        tough == q1[1] + q1[2] + q2[1] + q2[2]
        bonus == ConfBonus(conf)
    IN  Clip(IF 2 * tough > Max(total_games, 1) THEN bonus + 10 ELSE bonus, 0, 100)

\* RecordPenalty splitting on a separator the record string does not hold:
\* int() rejects the whole "W-L" string and no penalty applies
RecordPenaltyBadSplit(rec) ==
    IF rec.k \in {"garbage", "wl"} THEN 0
    ELSE IF rec.w < 15 THEN -15 ELSE 0

\* record-floor penalty (whole points, <= 0); str(row.get("record", "0-0"))
RecordPenalty(rec) ==
    IF rec.k = "garbage" THEN 0
    ELSE LET wins == rec.w
             losses == rec.l
             total == wins + losses
         IN  IF total > 0 /\ 2 * wins < total THEN -25
             ELSE IF wins < 15 THEN -15
             ELSE IF total > 0 /\ 20 * wins < 11 * total THEN -8
             ELSE 0

\* win_component = np.clip(float(row.get("win_pct", 50) or 50), 0, 100)
WinComponent(r) == Clip(OrDefault(r.win_pct, 50), 0, 100)

\* ps_component = np.clip(float(row.get("power_score", 50) or 50), 0, 100)
PsComponent(r) == Clip(OrDefault(r.power_score, 50), 0, 100)

\* compute_committee_score returning round(score, 2) without max(0, score)
compute_committee_score_unfloored(r) ==
    LET net_rank == OrDefault(r.net_rank, 365)
        sos_rank == OrDefault(r.sos_rank, 365)
        q1 == parse_quad(r.q1_record)
        q2 == parse_quad(r.q2_record)
        q3 == parse_quad(r.q3_record)
        q4 == parse_quad(r.q4_record)
        quad6 == QuadComponent6(QuadRaw10(q1[1], q2[1], q3[1], q4[1], q3[2], q4[2]))
        conf == r.conference
        n365 == 35 * NetComponent365(net_rank) + 10 * SosComponent365(sos_rank)
                + NetDays * (5 * quad6 + 10 * WinComponent(r) + 10 * PsComponent(r)
                             + 5 * ConfComponent(conf, q1, q2, q3, q4)
                             + 100 * RecordPenalty(r.record))
    IN  (2 * n365 + NetDays) \div (2 * NetDays)

\* compute_committee_score, in hundredths
compute_committee_score(r) ==
    LET net_rank == OrDefault(r.net_rank, 365)
        sos_rank == OrDefault(r.sos_rank, 365)
        q1 == parse_quad(r.q1_record)
        q2 == parse_quad(r.q2_record)
        q3 == parse_quad(r.q3_record)
        q4 == parse_quad(r.q4_record)
        quad6 == QuadComponent6(QuadRaw10(q1[1], q2[1], q3[1], q4[1], q3[2], q4[2]))
        conf == r.conference
        n365 == 35 * NetComponent365(net_rank) + 10 * SosComponent365(sos_rank)
                + NetDays * (5 * quad6 + 10 * WinComponent(r) + 10 * PsComponent(r)
                             + 5 * ConfComponent(conf, q1, q2, q3, q4)
                             + 100 * RecordPenalty(r.record))
    IN  (2 * Max(0, n365) + NetDays) \div (2 * NetDays)

(***************************************************************************)
(* SpecScore: compute_committee_score applied to one resume drawn from     *)
(* bounded sets (a grid of extreme values, and the two scenario families)  *)
(***************************************************************************)
MaxRank == 400
MaxWins == 30
MaxQuad == 12

Resume(net, sos, win, ps, conf, rec, q1, q2, q3, q4) ==
    [net_rank |-> net, sos_rank |-> sos, win_pct |-> win, power_score |-> ps,
     conference |-> conf, record |-> rec,
     q1_record |-> q1, q2_record |-> q2, q3_record |-> q3, q4_record |-> q4]

RecordValues == {Absent, Garbage, Single(MaxWins), WL(8, 20), WL(MaxWins, 0), WL(16, 14)}
ConferenceValues == {"", "SEC", "WCC", "Ivy"}

GridResumes ==
    { Resume(net, sos, win, ps, conf, rec, q1, q2, q3, q4) :
        net \in {NULL, 1, 25, 350, MaxRank}, sos \in {NULL, 1, MaxRank},
        win \in {NULL, 0, 100}, ps \in {NULL, 100},
        conf \in ConferenceValues, rec \in RecordValues,
        q1 \in {Absent, Garbage, WL(0, 5), WL(MaxQuad, 0)},
        q2 \in {Absent, WL(MaxQuad, 0)},
        q3 \in {Absent, WL(0, 1)},
        q4 \in {Absent, WL(0, MaxQuad)} }

\* Scenario A: net_rank 1, Q1 "10-1", win_pct 95, power_score 95, "SEC"
ScenarioANamed(r) ==
    /\ r.net_rank = 1 /\ r.q1_record = WL(10, 1) /\ r.win_pct = 95
    /\ r.power_score = 95 /\ r.conference = "SEC"
ScenarioAResumes ==
    { Resume(1, sos, 95, 95, "SEC", rec, WL(10, 1), q, q, q) :
        sos \in {NULL, 1, 292, 293, MaxRank}, rec \in RecordValues,
        q \in {Absent, WL(0, 0)} }

\* Scenario B: record "8-20", net_rank 350, Q1 "0-5"
ScenarioBNamed(r) ==
    /\ r.record = WL(8, 20) /\ r.net_rank = 350 /\ r.q1_record = WL(0, 5)
ScenarioBResumes ==
    { Resume(350, sos, win, ps, conf, WL(8, 20), WL(0, 5), q, q, q) :
        sos \in {NULL, 1}, win \in {NULL, 50, 100}, ps \in {NULL, 50, 100},
        conf \in ConferenceValues, q \in {Absent, WL(0, 0)} }

\* every field the scenario does not name is absent
Defaulted(r, named) ==
    \A f \in (DOMAIN r) \ named :
        IF f \in {"record", "q1_record", "q2_record", "q3_record", "q4_record"}
        THEN r[f] = Absent
        ELSE IF f = "conference" THEN r[f] = "" ELSE r[f] = NULL

Resumes == GridResumes \cup ScenarioAResumes \cup ScenarioBResumes

EmptyRow == Resume(NULL, NULL, NULL, NULL, "", Absent, Absent, Absent, Absent, Absent)

ScoreInit ==
    /\ row \in Resumes
    /\ score = NULL

ScoreRow ==
    /\ score = NULL
    /\ score' = compute_committee_score(row)
    /\ UNCHANGED row

(***************************************************************************)
(* The bracket run.  Sequences and sorting.                                *)
(***************************************************************************)
Runs == {1, 2}
\* REGIONS in alphabetical order
REGIONS_Alphabetical == <<"East", "Midwest", "South", "West">>
REGIONS == <<"East", "West", "South", "Midwest">>

\* A sequence built as [i \in 1..n |-> e] is followed by \o <<>>, which turns it
\* into an explicit tuple (the value is the same sequence).

\* s[:n] and DataFrame.head(n): the first n rows, all but the last -n when n < 0
head(s, n) ==
    IF n >= 0 THEN SubSeq(s, 1, Min(n, Len(s)))
    ELSE SubSeq(s, 1, Max(0, Len(s) + n))

\* indices of keys in descending key order; equal keys keep their input
\* order under a stable sort ("stable"), the opposite order otherwise
SortPerm(keys, order) ==
    LET n == Len(keys)
        rk == [i \in 1..n |->
                 Cardinality({j \in 1..n :
                     \/ keys[j] > keys[i]
                     \/ keys[j] = keys[i] /\ (IF order = "stable" THEN j < i ELSE j > i)})
                 + 1] \o <<>>
    IN  [p \in 1..n |-> CHOOSE i \in 1..n : rk[i] = p] \o <<>>

\* SortByScore with ascending=True
SortByScoreAscending(s, order) ==
    LET perm == SortPerm([i \in 1..Len(s) |-> 0 - s[i].committee_score] \o <<>>, order)
    IN  [p \in 1..Len(s) |-> s[perm[p]]] \o <<>>

\* sort_values("committee_score", ascending=False).reset_index(drop=True)
SortByScore(s, order) ==
    LET perm == SortPerm([i \in 1..Len(s) |-> s[i].committee_score] \o <<>>, order)
    IN  [p \in 1..Len(s) |-> s[perm[p]]] \o <<>>

\* the set of values of a sequence
Range(s) == {s[i] : i \in 1..Len(s)}

\* the distinct values of a sequence in order of first appearance (unique())
Unique(s) ==
    LET firsts == {i \in 1..Len(s) : \A j \in 1..(i - 1) : s[j] # s[i]}
    IN  [p \in 1..Cardinality(firsts) |->
           s[CHOOSE i \in firsts : Cardinality({j \in firsts : j < i}) = p - 1]] \o <<>>

(***************************************************************************)
(* random.Random: a deterministic generator.  The Mersenne Twister is      *)
(* abstracted by a counter-based generator: the state counts the draws     *)
(* made since seeding, and the uniform number of a draw is a fixed mix of  *)
(* the state, Uniform(state) / RngScale.  Random(None) seeds from          *)
(* operating-system entropy.                                               *)
(***************************************************************************)
RngScale == 1024
EntropyStates == {3000, 5000}
RngSeed(seed) == 1000 * seed
RngNext(st) == st + 1
Uniform(st) == (st * st * 7 + st * 389 + (st \div 5) * 211 + 17) % RngScale

\* rng.choices(range(n), weights, k=1)[0]: bisect of the cumulative weights
\* at random() * total, capped at n - 1
RECURSIVE SumSeq(_)
SumSeq(w) == IF w = <<>> THEN 0 ELSE w[Len(w)] + SumSeq(SubSeq(w, 1, Len(w) - 1))
WeightedIndex(u, w) ==
    LET n == Len(w)
        total == SumSeq(w)
        hit == {i \in 1..n : u * total < RngScale * SumSeq(SubSeq(w, 1, i))}
    IN  IF hit = {} THEN n ELSE CHOOSE i \in hit : \A j \in hit : i <= j

\* rng.gauss(0, 1) reduced to whole standard deviations by the quantile of
\* the uniform draw
GaussUnits(u) ==
    IF u * 100 < 7 * RngScale THEN -2
    ELSE IF u * 100 < 31 * RngScale THEN -1
    ELSE IF u * 100 < 69 * RngScale THEN 0
    ELSE IF u * 100 < 93 * RngScale THEN 1 ELSE 2

(***************************************************************************)
(* Inputs: the team table as _load_inputs returns it (absent ranks are     *)
(* 999, an absent power score is 50).  Row i of a pool of pattern pat.     *)
(***************************************************************************)
MaxTeams == 75
PoolSizes == {0, 1, 7, 62, 64, 65, 68, MaxTeams}
Patterns == {"mixed", "heavy", "distinct", "single", "stray"}
TieOrders == {"stable", "reversed"}

PowerCycle == <<"SEC", "Big Ten", "Big 12", "ACC", "Big East", "WCC">>

\* in a "stray" pool some one-team leagues have a row in standings.csv and
\* none in teams_stats.csv (the merge of the two is a left merge)
Stray(pat, i) == pat = "stray" /\ i > 40 /\ i % 4 = 1 /\ i % 10 # 7

PoolConference(pat, i) ==
    CASE pat \in {"mixed", "stray"} -> IF i <= 40 THEN PowerCycle[((i - 1) % 6) + 1]
                          ELSE "League " \o ToString(i)
      [] pat = "heavy" -> IF i % 3 = 0 THEN "Ivy" ELSE "SEC"
      [] pat = "distinct" -> "League " \o ToString(i)
      [] OTHER -> ""

PoolRow(pat, i) ==
    [id |-> i,
     conference |-> PoolConference(pat, i),
     net_rank |-> IF pat \in {"heavy", "single"} THEN 10 * ((i % 7) + 1)
                  ELSE IF i % 17 = 0 \/ Stray(pat, i) THEN 999 ELSE ((i * 37) % 101) + 1,
     sos_rank |-> IF i % 2 = 0 THEN 999 ELSE ((i * 11) % 60) + 1,
     win_pct |-> IF pat = "heavy" THEN 60 ELSE 50 + 10 * (i % 5),
     power_score |-> IF i % 4 = 0 THEN 50 ELSE 40 + (i % 50),
     record |-> IF i % 9 = 0 THEN WL(8, 20) ELSE WL(22, 8),
     q1_record |-> IF pat = "heavy" THEN WL(6, 2) ELSE WL(3 * (i % 4), 2),
     q2_record |-> WL(4, 1),
     q3_record |-> Absent,
     q4_record |-> IF i % 13 = 0 THEN WL(5, 1) ELSE Absent,
     has_standing |-> (i % 10 # 7),
     in_teams |-> ~Stray(pat, i),
     conf_pct |-> IF i % 8 = 0 THEN 0 ELSE 10 * ((i * 13) % 11)]

MakePool(pat, n) == [i \in 1..n |-> PoolRow(pat, i)] \o <<>>

Pools == {MakePool(pat, n) : pat \in Patterns, n \in PoolSizes}

(***************************************************************************)
(* Run parameters                                                          *)
(***************************************************************************)
Impls == {"server", "pipeline"}
Variances == {0, 3, 5}
Seeds == {NULL, 1, 2}
ParamSets == [impl : Impls, shuffle : BOOLEAN, variance : Variances, seed : Seeds]

\* the variance handed to the stochastic steps
EffectiveVariance(p) ==
    IF p.impl = "server" THEN (IF p.shuffle THEN p.variance ELSE 0)
    ELSE IF p.shuffle /\ p.variance = 0 THEN 3 ELSE p.variance

\* InitialRng ignoring the seed: random.Random() in shuffle mode
InitialRngUnseeded(p) == IF ~p.shuffle THEN {NULL} ELSE EntropyStates

\* rng = random.Random(seed) if shuffle else None
InitialRng(p) ==
    IF ~p.shuffle THEN {NULL}
    ELSE IF p.seed = NULL THEN EntropyStates ELSE {RngSeed(p.seed)}

\* teams["committee_score"] = teams.apply(compute_committee_score, axis=1),
\* then the table sorted by committee_score descending
ScoredRow(r) ==
    [id |-> r.id, conference |-> r.conference, net_rank |-> r.net_rank,
     record |-> r.record, committee_score |-> compute_committee_score(r),
     is_auto_bid |-> FALSE]

ScoredTeams(p, order) == SortByScore([i \in 1..Len(p) |-> ScoredRow(p[i])] \o <<>>, order)

\* the team table: the server builds it from ncaab_teams, the pipeline reads
\* teams_stats.csv
InTeams(r, impl) == impl = "server" \/ r.in_teams
Teams(p, impl) == SelectSeq(p, LAMBDA r : InTeams(r, impl))

\* the standings table: the server builds one row for every team, the
\* pipeline reads standings.csv, which holds the teams that have a standing
StandingRow(r) == [id |-> r.id, conference |-> r.conference, conf_pct |-> r.conf_pct]
InStandings(r, impl) == impl = "server" \/ r.has_standing
Standings(p, impl) ==
    LET rows == SelectSeq(p, LAMBDA r : InStandings(r, impl))
    IN  [i \in 1..Len(rows) |-> StandingRow(rows[i])] \o <<>>


(***************************************************************************)
(* project_conference_champions                                            *)
(***************************************************************************)
\* base_weights ** (1.0 / upset_factor), times 1000, for the variances of
\* Variances; upset is upset_factor times 100
ChampionWeights(conf, variance) ==
    LET k == IF conf \in POWER_CONFERENCES THEN 8
             ELSE IF conf \in UPPER_MID THEN 5 ELSE 3
        upset == 100 + variance * k
    IN  CASE upset = 109 -> <<529, 280, 143, 87, 52, 28>>
          [] upset = 115 -> <<547, 300, 158, 99, 61, 33>>
          [] upset = 124 -> <<572, 327, 181, 117, 75, 43>>
          [] upset = 125 -> <<574, 330, 183, 119, 76, 44>>
          [] upset = 140 -> <<610, 371, 220, 150, 100, 61>>

\* net_rank of a team after the left merge: fillna(999) for an unknown team
NetRankOf(tm, id) ==
    LET hit == {i \in 1..Len(tm) : tm[i].id = id}
    IN  IF hit = {} THEN 999
        ELSE LET v == tm[CHOOSE i \in hit : TRUE].net_rank
             IN  IF v = NULL THEN 999 ELSE v

NetKeySpan == 100000

\* ConferenceTeams without the sort: the rows in standings order
ConferenceTeamsUnsorted(st, tm, conf) == SelectSeq(st, LAMBDA x : x.conference = conf)

\* ConferenceTeams breaking conf_pct ties by the highest net_rank
ConferenceTeamsNetDescending(st, tm, conf) ==
    LET rows == SelectSeq(st, LAMBDA x : x.conference = conf)
        perm == SortPerm([i \in 1..Len(rows) |->
                            rows[i].conf_pct * NetKeySpan + NetRankOf(tm, rows[i].id)] \o <<>>,
                         "stable")
    IN  [i \in 1..Len(rows) |-> rows[perm[i]]] \o <<>>

\* the rows of one conference sorted by conf_pct descending, net_rank ascending
ConferenceTeams(st, tm, conf) ==
    LET rows == SelectSeq(st, LAMBDA x : x.conference = conf)
        perm == SortPerm([i \in 1..Len(rows) |->
                            rows[i].conf_pct * NetKeySpan - NetRankOf(tm, rows[i].id)] \o <<>>,
                         "stable")
    IN  [i \in 1..Len(rows) |-> rows[perm[i]]] \o <<>>

\* the champion index (1-based) among the sorted rows, and the generator after it
ChampionPick(conf, n_rows, g, variance) ==
    IF variance = 0 \/ g = NULL THEN [idx |-> 1, rng |-> g]
    ELSE LET n == Min(n_rows, 6)
             g1 == RngNext(g)
         IN  [idx |-> WeightedIndex(Uniform(g1),
                                    SubSeq(ChampionWeights(conf, variance), 1, n)),
              rng |-> g1]

\* returns the conference -> champion mapping (in insertion order) and the
\* generator; the c-th conference of the loop finds the generator advanced by
\* the picks of the c - 1 conferences before it
project_conference_champions(st, tm, g, variance) ==
    LET confs == Unique([i \in 1..Len(st) |-> st[i].conference] \o <<>>)
        det == variance = 0 \/ g = NULL
        before(c) == IF det THEN g ELSE g + (c - 1)
        champion(c) ==
            LET conf_teams == ConferenceTeams(st, tm, confs[c])
            IN  conf_teams[ChampionPick(confs[c], Len(conf_teams), before(c), variance).idx].id
    IN  [champions |-> [c \in 1..Len(confs) |->
                          [conference |-> confs[c], team |-> champion(c)]] \o <<>>,
         rng |-> before(Len(confs) + 1)]

(***************************************************************************)
(* select_at_large                                                         *)
(***************************************************************************)
\* np.exp((score - scores.min()) * variance * 0.1) times 1000, by the cubic
\* Taylor polynomial; y is the exponent times 100
AtLargeWeight(sc, minsc, variance) ==
    LET y == ((sc - minsc) * variance) \div 100
    IN  1000 + 10 * y + (y * y) \div 20 + (y * y * y) \div 6000

\* rng.choices(range(len(w)), weights=w, k=k): k draws with replacement
Choices(k, g, w) ==
    [out |-> [j \in 1..Max(k, 0) |-> WeightedIndex(Uniform(g + j), w)] \o <<>>,
     rng |-> g + Max(k, 0)]

\* for j in range(len(bubble_candidates)): append the unseen j, stop at remaining_spots
RECURSIVE FillFor(_, _, _, _)
FillFor(j, unique, nb, remaining) ==
    IF j > nb THEN unique
    ELSE IF j \notin Range(unique)
         THEN LET u2 == Append(unique, j)
              IN  IF Len(u2) >= remaining THEN u2 ELSE FillFor(j + 1, u2, nb, remaining)
         ELSE FillFor(j + 1, unique, nb, remaining)

\* FillWhile without the fill: the deduplicated draws are all there is
FillWhileSkipped(unique, nb, remaining) == unique

\* while len(unique_indices) < remaining_spots and len(unique_indices) < len(bubble_candidates)
RECURSIVE FillWhile(_, _, _)
FillWhile(unique, nb, remaining) ==
    IF Len(unique) < remaining /\ Len(unique) < nb
    THEN FillWhile(FillFor(1, unique, nb, remaining), nb, remaining)
    ELSE unique

Ids(s) == [i \in 1..Len(s) |-> s[i].id] \o <<>>

\* LockInCount locking nobody in
LockInCountNone(n_spots) == 0

\* lock_in_count = max(0, n_spots - 6)
LockInCount(n_spots) == Max(0, n_spots - 6)

\* bubble_pool_size = 12
BubblePoolSize == 12

select_at_large(tm, auto_bid_teams, n_spots, g, variance, impl, order) ==
    LET candidates == SortByScore(SelectSeq(tm, LAMBDA t : t.id \notin auto_bid_teams), order)
    IN  IF variance = 0 \/ g = NULL
        THEN [selected |-> Ids(head(candidates, n_spots)), rng |-> g]
        ELSE LET lock_in_count == LockInCount(n_spots)
                 bubble_pool_size == BubblePoolSize
                 locks == Ids(head(candidates, lock_in_count))
                 bubble_candidates ==
                     SubSeq(candidates, lock_in_count + 1,
                            Min(Len(candidates), lock_in_count + bubble_pool_size))
                 nb == Len(bubble_candidates)
                 minsc == CHOOSE m \in {bubble_candidates[i].committee_score : i \in 1..nb} :
                              \A i \in 1..nb : m <= bubble_candidates[i].committee_score
                 weights == [i \in 1..nb |->
                               AtLargeWeight(bubble_candidates[i].committee_score, minsc, variance)]
                            \o <<>>
                 remaining_spots == n_spots - lock_in_count
                 drawn == Choices(Min(remaining_spots, nb), g, weights)
                 unique_indices == FillWhile(Unique(drawn.out), nb, remaining_spots)
                 bubble_selected == [i \in 1..Len(unique_indices) |->
                                       bubble_candidates[unique_indices[i]].id] \o <<>>
             IN  IF nb = 0 THEN [selected |-> locks, rng |-> g]
                 ELSE [selected |-> locks \o head(bubble_selected,
                                                  IF impl = "server" THEN remaining_spots
                                                  ELSE n_spots - Len(locks)),
                       rng |-> drawn.rng]

(***************************************************************************)
(* assign_seeds                                                            *)
(***************************************************************************)
\* [rng.gauss(0, variance * 1.5) for _ in range(n)], in standard deviations
GaussDraws(n, g) ==
    [out |-> [j \in 1..n |-> GaussUnits(Uniform(g + j))] \o <<>>, rng |-> g + n]

\* the noise multiplier times 10 of the team at 0-based position i
NoiseAmp10(i) == IF i >= 16 THEN 15 ELSE IF i >= 8 THEN 12 ELSE 10

\* seed_score times 200: committee_score plus gauss(0, 1.5 * variance) amplified
SeedScore200(t, i, z, variance) == 2 * t.committee_score + 3 * variance * z * NoiseAmp10(i)

\* SeedLine without the cap at line 16
SeedLineUncapped(i) == (i \div 4) + 1

\* seed_line = min(16, (i // 4) + 1) at 0-based position i
SeedLine(i) == Min(MaxSeedLine, (i \div 4) + 1)

\* SeededRow numbering the ranks from 0
SeededRowZeroBased(t, i) ==
    [id |-> t.id, overall_rank |-> i, seed |-> SeedLine(i),
     committee_score |-> t.committee_score,
     net_rank |-> OrDefault(t.net_rank, 999),
     conference |-> t.conference, record |-> t.record, is_auto_bid |-> t.is_auto_bid]

\* the dictionary appended for the row at 0-based position i
SeededRow(t, i) ==
    [id |-> t.id, overall_rank |-> i + 1, seed |-> SeedLine(i),
     committee_score |-> t.committee_score,
     net_rank |-> OrDefault(t.net_rank, 999),
     conference |-> t.conference, record |-> t.record, is_auto_bid |-> t.is_auto_bid]

\* NoisyOrder putting the first row of the field at every position
NoisyOrderRepeating(field, out, variance, order) == [i \in 1..Len(field) |-> 1] \o <<>>

\* field.sort_values("seed_score", ascending=False): the positions of the
\* field in descending order of the noisy score
NoisyOrder(field, out, variance, order) ==
    SortPerm([i \in 1..Len(field) |->
                SeedScore200(field[i], i - 1, out[i], variance)] \o <<>>, order)

assign_seeds(tm, field_teams, g, variance, order) ==
    LET field == SortByScore(SelectSeq(tm, LAMBDA t : t.id \in field_teams), order)
        n == Len(field)
        noisy == variance > 0 /\ g # NULL
        drawn == IF noisy THEN GaussDraws(n, g) ELSE [out |-> <<>>, rng |-> g]
        perm == IF noisy THEN NoisyOrder(field, drawn.out, variance, order)
                ELSE [i \in 1..n |-> i] \o <<>>
    IN  [seeded |-> [i \in 1..n |-> SeededRow(field[perm[i]], i - 1)] \o <<>>,
         rng |-> drawn.rng]


(***************************************************************************)
(* place_into_regions                                                      *)
(***************************************************************************)
TOP_HALF == {1, 16, 8, 9, 4, 13, 5, 12}
BOT_HALF == {2, 15, 7, 10, 3, 14, 6, 11}

\* itertools.permutations(range(4)) in generation order, 1-based:
\* PERMS4[k][ri] is the chunk position of the team that region ri receives
PERMS4 ==
    <<<<1, 2, 3, 4>>, <<1, 2, 4, 3>>, <<1, 3, 2, 4>>, <<1, 3, 4, 2>>,
      <<1, 4, 2, 3>>, <<1, 4, 3, 2>>, <<2, 1, 3, 4>>, <<2, 1, 4, 3>>,
      <<2, 3, 1, 4>>, <<2, 3, 4, 1>>, <<2, 4, 1, 3>>, <<2, 4, 3, 1>>,
      <<3, 1, 2, 4>>, <<3, 1, 4, 2>>, <<3, 2, 1, 4>>, <<3, 2, 4, 1>>,
      <<3, 4, 1, 2>>, <<3, 4, 2, 1>>, <<4, 1, 2, 3>>, <<4, 1, 3, 2>>,
      <<4, 2, 1, 3>>, <<4, 2, 3, 1>>, <<4, 3, 1, 2>>, <<4, 3, 2, 1>>>>

ConfTotal(sd, conf) == Cardinality({i \in 1..Len(sd) : sd[i].conference = conf})

\* conf_caps[conf] = max(2, (total + 3) // 4 + 1)
ConfCap(sd, conf) == Max(2, ((ConfTotal(sd, conf) + 3) \div 4) + 1)

\* conflict_score blind to conferences: every region is as good as another
conflict_score_blind(team, rt, cap) == 0

\* _conflict_score of a team against the teams rt already placed in a region;
\* region_confs[region][conf] is the number of rows of rt with the conference
conflict_score(team, rt, cap) ==
    LET same == {k \in 1..Len(rt) : rt[k].conference = team.conference}
        half == {k \in same : \/ team.seed \in TOP_HALF /\ rt[k].seed \in TOP_HALF
                              \/ team.seed \in BOT_HALF /\ rt[k].seed \in BOT_HALF}
        pair == {k \in same : {team.seed, rt[k].seed} \in {{1, 2}, {3, 4}}}
    IN  (IF Cardinality(same) >= cap THEN 200 ELSE 0)
        + 100 * Cardinality(half) + 80 * Cardinality(pair) + 8 * Cardinality(same)

\* total conflict of permutation k for a full chunk, from the 4 x 4 score table
PermTotal(cs, k) ==
    cs[PERMS4[k][1]][1] + cs[PERMS4[k][2]][2] + cs[PERMS4[k][3]][3] + cs[PERMS4[k][4]][4]

\* BestPerm taking the first permutation whatever its total
BestPermFirst(cs) == 1

\* the first permutation of minimum total (strict < keeps the earliest)
BestPerm(cs) ==
    CHOOSE k \in 1..24 :
        /\ \A j \in 1..24 : PermTotal(cs, k) <= PermTotal(cs, j)
        /\ \A j \in 1..(k - 1) : PermTotal(cs, j) > PermTotal(cs, k)

\* PlaceFull stacking the whole chunk into the first region
PlaceFullStacked(chunk, regs, sd) ==
    [ri \in 1..4 |-> IF ri = 1 THEN regs[1] \o chunk ELSE regs[ri]] \o <<>>

\* a full chunk of 4 teams: all 24 assignments, scores against the regions
\* as they are before the chunk
PlaceFull(chunk, regs, sd) ==
    LET cs == [ti \in 1..4 |-> [ri \in 1..4 |->
                  conflict_score(chunk[ti], regs[ri], ConfCap(sd, chunk[ti].conference))]
                  \o <<>>] \o <<>>
        best == BestPerm(cs)
    IN  [ri \in 1..4 |-> Append(regs[ri], chunk[PERMS4[best][ri]])] \o <<>>

\* a partial chunk: each team in turn takes the lowest-conflict region not
\* yet used within the chunk (the first such region on a tie)
RECURSIVE PlaceGreedy(_, _, _, _)
PlaceGreedy(chunk, regs, used_regions, sd) ==
    IF chunk = <<>> THEN regs
    ELSE LET team == Head(chunk)
             free == (1..4) \ used_regions
             sc == [ri \in free |->
                      conflict_score(team, regs[ri], ConfCap(sd, team.conference))]
             best_region == CHOOSE ri \in free :
                                \A rj \in free : sc[ri] < sc[rj] \/ (sc[ri] = sc[rj] /\ ri <= rj)
         IN  PlaceGreedy(Tail(chunk), [regs EXCEPT ![best_region] = Append(@, team)],
                         used_regions \cup {best_region}, sd)

\* PlaceChunk leaving out the chunks of fewer than 4 teams
PlaceChunkFullOnly(chunk, regs, sd) ==
    IF Len(chunk) < 4 THEN regs ELSE PlaceFull(chunk, regs, sd)

\* one chunk: the greedy branch for fewer than 4 teams, else the permutations
PlaceChunk(chunk, regs, sd) ==
    IF Len(chunk) < 4 THEN PlaceGreedy(chunk, regs, {}, sd) ELSE PlaceFull(chunk, regs, sd)

\* Chunks cutting the seed line into chunks of 2
ChunksOfTwo(line) ==
    [c \in 1..((Len(line) + 1) \div 2) |->
       SubSeq(line, 2 * (c - 1) + 1, Min(Len(line), 2 * c))] \o <<>>

\* teams_at_seed cut into chunks of 4
Chunks(line) ==
    [c \in 1..((Len(line) + 3) \div 4) |->
       SubSeq(line, 4 * (c - 1) + 1, Min(Len(line), 4 * c))] \o <<>>

\* the chunks of seed lines seed_num..16 in processing order
RECURSIVE LineChunks(_, _)
LineChunks(seed_num, sd) ==
    IF seed_num > MaxSeedLine THEN <<>>
    ELSE Chunks(SelectSeq(sd, LAMBDA t : t.seed = seed_num)) \o LineChunks(seed_num + 1, sd)

RECURSIVE PlaceChunks(_, _, _)
PlaceChunks(chunks, regs, sd) ==
    IF chunks = <<>> THEN regs
    ELSE PlaceChunks(Tail(chunks), PlaceChunk(Head(chunks), regs, sd), sd)

EmptyRegions == [ri \in 1..NumRegions |-> <<>>] \o <<>>

\* the values regions takes in the loop over the chunks: element k is
\* regions when chunk k is about to be processed, the last element is
\* regions before the final sort
RECURSIVE PlacementTrace(_, _, _)
PlacementTrace(chunks, regs, sd) ==
    IF chunks = <<>> THEN <<regs>>
    ELSE <<regs>> \o PlacementTrace(Tail(chunks), PlaceChunk(Head(chunks), regs, sd), sd)

\* regions[region_name].sort(key=lambda t: t["seed"]) (a stable sort)
SortBySeed(rt) ==
    LET perm == SortPerm([i \in 1..Len(rt) |-> 0 - rt[i].seed] \o <<>>, "stable")
    IN  [i \in 1..Len(rt) |-> rt[perm[i]]] \o <<>>

place_into_regions(sd) ==
    LET placed == PlaceChunks(LineChunks(1, sd), EmptyRegions, sd)
    IN  [ri \in 1..NumRegions |-> SortBySeed(placed[ri])] \o <<>>

(***************************************************************************)
(* generate_matchups                                                       *)
(***************************************************************************)
HasSeed(rt, sn) == \E k \in 1..Len(rt) : rt[k].seed = sn

\* region_teams = {t["seed"]: t for t in regions[region_name]}: the last
\* team of a seed wins the key
RegionTeam(rt, sn) ==
    rt[CHOOSE k \in 1..Len(rt) : rt[k].seed = sn /\ \A j \in (k + 1)..Len(rt) : rt[j].seed # sn]

generate_matchups(regs) ==
    LET slots == [k \in 1..(NumRegions * Len(SEED_MATCHUPS)) |->
                    [ri |-> ((k - 1) \div Len(SEED_MATCHUPS)) + 1,
                     pi |-> ((k - 1) % Len(SEED_MATCHUPS)) + 1]] \o <<>>
        kept == SelectSeq(slots, LAMBDA sl :
                    /\ HasSeed(regs[sl.ri], SEED_MATCHUPS[sl.pi][1])
                    /\ HasSeed(regs[sl.ri], SEED_MATCHUPS[sl.pi][2]))
    IN  [g \in 1..Len(kept) |->
           LET sl == kept[g]
               team_a == RegionTeam(regs[sl.ri], SEED_MATCHUPS[sl.pi][1])
               team_b == RegionTeam(regs[sl.ri], SEED_MATCHUPS[sl.pi][2])
           IN  [game_counter |-> g, region |-> REGIONS[sl.ri],
                team1Seed |-> SEED_MATCHUPS[sl.pi][1], team2Seed |-> SEED_MATCHUPS[sl.pi][2],
                team1 |-> team_a.id, team2 |-> team_b.id,
                team1Conference |-> team_a.conference,
                team2Conference |-> team_b.conference]] \o <<>>


(***************************************************************************)
(* run_bracketology, one action per call it makes                          *)
(***************************************************************************)
NoBracket == [mode |-> "none", variance |-> 0, seed |-> NULL,
              total |-> 0, autoBids |-> 0, atLarge |-> 0, conferenceBids |-> <<>>]

NoParams == [impl |-> "server", shuffle |-> FALSE, variance |-> 0, seed |-> NULL]

auto_bid_teams(r) == {champions[r][i].team : i \in 1..Len(champions[r])}

\* NAtLarge forgetting the auto-bids: all 68 spots go to at-large teams
NAtLargeWholeField(impl, n_auto) == FieldSize

\* n_at_large: the server clamps it at 0, the pipeline does not
NAtLarge(impl, n_auto) ==
    IF impl = "server" THEN Max(0, FieldSize - n_auto) ELSE FieldSize - n_auto

\* field_teams = list(auto_bid_teams) + at_large_teams, as a set of ids
field_teams(r) == auto_bid_teams(r) \cup Range(at_large[r])

\* Counter(field_df["conference"]).most_common(15)
ConferenceBids(tm, field) ==
    LET field_df == SelectSeq(tm, LAMBDA t : t.id \in field)
        confs == Unique([i \in 1..Len(field_df) |-> field_df[i].conference] \o <<>>)
        cnt == [i \in 1..Len(confs) |->
                  Cardinality({k \in 1..Len(field_df) : field_df[k].conference = confs[i]})]
               \o <<>>
        perm == SortPerm(cnt, "stable")
    IN  head([i \in 1..Len(confs) |-> <<confs[perm[i]], cnt[perm[i]]>>] \o <<>>, 15)

RunInit ==
    /\ pool \in Pools
    /\ tieOrder \in TieOrders
    /\ params = [r \in Runs |-> NoParams]
    /\ pc = [r \in Runs |-> "idle"]
    /\ rng = [r \in Runs |-> NULL]
    /\ teams = [r \in Runs |-> <<>>]
    /\ champions = [r \in Runs |-> <<>>]
    /\ at_large = [r \in Runs |-> <<>>]
    /\ seeded = [r \in Runs |-> <<>>]
    /\ regions = [r \in Runs |-> EmptyRegions]
    /\ matchups = [r \in Runs |-> <<>>]
    /\ bracket = [r \in Runs |-> NoBracket]

\* Gen with one generator shared by all runs
GenShared(r) == 1

\* the generator instance a run draws from: rng is a local variable of the
\* call, made by the call itself
Gen(r) == r

\* StartWith without the empty-table return of the server
StartWithoutEmptyReturn(r, args) ==
    /\ pc[r] = "idle"
    /\ \E p \in args :
        /\ params' = [params EXCEPT ![r] = p]
        /\ \E g \in InitialRng(p) : rng' = [rng EXCEPT ![Gen(r)] = g]
        /\ teams' = [teams EXCEPT ![r] = ScoredTeams(Teams(pool, p.impl), tieOrder)]
        /\ pc' = [pc EXCEPT ![r] = "scored"]
    /\ UNCHANGED <<row, score, pool, tieOrder, champions, at_large, seeded, regions,
                   matchups, bracket>>

\* the call with parameters drawn from args: the generator, _load_inputs, the
\* empty-table return of the server, the committee scores and the sort
StartWith(r, args) ==
    /\ pc[r] = "idle"
    /\ \E p \in args :
        /\ params' = [params EXCEPT ![r] = p]
        /\ \E g \in InitialRng(p) : rng' = [rng EXCEPT ![Gen(r)] = g]
        /\ IF pool = <<>> /\ p.impl = "server"
           THEN /\ bracket' = [bracket EXCEPT ![r] =
                                 [mode |-> "deterministic", variance |-> 0, seed |-> p.seed,
                                  total |-> 0, autoBids |-> 0, atLarge |-> 0,
                                  conferenceBids |-> <<>>]]
                /\ pc' = [pc EXCEPT ![r] = "done"]
                /\ UNCHANGED teams
           ELSE /\ teams' = [teams EXCEPT ![r] = ScoredTeams(Teams(pool, p.impl), tieOrder)]
                /\ pc' = [pc EXCEPT ![r] = "scored"]
                /\ UNCHANGED bracket
    /\ UNCHANGED <<row, score, pool, tieOrder, champions, at_large, seeded, regions, matchups>>

\* a call of run_bracketology(shuffle, variance, seed)
Start(r) == StartWith(r, ParamSets)

\* the call repeated with the arguments of the finished run q
Rerun(r, q) == pc[q] = "done" /\ StartWith(r, {params[q]})

\* champions = project_conference_champions(...); teams["is_auto_bid"] = isin(auto_bid_teams)
ProjectChampions(r) ==
    /\ pc[r] = "scored"
    /\ \E res \in {project_conference_champions(Standings(pool, params[r].impl), teams[r],
                                                 rng[Gen(r)],
                                                 EffectiveVariance(params[r]))} :
       \E auto \in {Range([i \in 1..Len(res.champions) |-> res.champions[i].team])} :
           /\ champions' = [champions EXCEPT ![r] = res.champions]
           /\ rng' = [rng EXCEPT ![Gen(r)] = res.rng]
           /\ teams' = [teams EXCEPT ![r] =
                          [i \in 1..Len(teams[r]) |->
                             [teams[r][i] EXCEPT !.is_auto_bid = (teams[r][i].id \in auto)]]
                          \o <<>>]
    /\ pc' = [pc EXCEPT ![r] = "champions"]
    /\ UNCHANGED <<row, score, pool, tieOrder, params, at_large, seeded, regions,
                   matchups, bracket>>

SelectAtLarge(r) ==
    /\ pc[r] = "champions"
    /\ \E res \in {select_at_large(teams[r], auto_bid_teams(r),
                                    NAtLarge(params[r].impl, Cardinality(auto_bid_teams(r))),
                                    rng[Gen(r)], EffectiveVariance(params[r]), params[r].impl,
                                    tieOrder)} :
           /\ at_large' = [at_large EXCEPT ![r] = res.selected]
           /\ rng' = [rng EXCEPT ![Gen(r)] = res.rng]
    /\ pc' = [pc EXCEPT ![r] = "atlarge"]
    /\ UNCHANGED <<row, score, pool, tieOrder, params, teams, champions, seeded, regions,
                   matchups, bracket>>

AssignSeeds(r) ==
    /\ pc[r] = "atlarge"
    /\ \E res \in {assign_seeds(teams[r], field_teams(r), rng[Gen(r)],
                                 EffectiveVariance(params[r]), tieOrder)} :
           /\ seeded' = [seeded EXCEPT ![r] = res.seeded]
           /\ rng' = [rng EXCEPT ![Gen(r)] = res.rng]
    /\ pc' = [pc EXCEPT ![r] = "seeded"]
    /\ UNCHANGED <<row, score, pool, tieOrder, params, teams, champions, at_large, regions,
                   matchups, bracket>>

PlaceIntoRegions(r) ==
    /\ pc[r] = "seeded"
    /\ regions' = [regions EXCEPT ![r] = place_into_regions(seeded[r])]
    /\ pc' = [pc EXCEPT ![r] = "placed"]
    /\ UNCHANGED <<row, score, pool, tieOrder, params, rng, teams, champions, at_large,
                   seeded, matchups, bracket>>

GenerateMatchups(r) ==
    /\ pc[r] = "placed"
    /\ matchups' = [matchups EXCEPT ![r] = generate_matchups(regions[r])]
    /\ pc' = [pc EXCEPT ![r] = "matched"]
    /\ UNCHANGED <<row, score, pool, tieOrder, params, rng, teams, champions, at_large,
                   seeded, regions, bracket>>

\* the returned document; its regions, matchups and seedList are the
\* variables of the same names
Return(r) ==
    /\ pc[r] = "matched"
    /\ bracket' = [bracket EXCEPT ![r] =
          [mode |-> IF params[r].shuffle THEN "shuffle" ELSE "deterministic",
           variance |-> IF params[r].impl = "server"
                        THEN (IF params[r].shuffle THEN params[r].variance ELSE 0)
                        ELSE EffectiveVariance(params[r]),
           seed |-> params[r].seed,
           total |-> Cardinality(auto_bid_teams(r)) + Len(at_large[r]),
           autoBids |-> Cardinality(auto_bid_teams(r)),
           atLarge |-> Len(at_large[r]),
           conferenceBids |-> ConferenceBids(teams[r], field_teams(r))]]
    /\ pc' = [pc EXCEPT ![r] = "done"]
    /\ UNCHANGED <<row, score, pool, tieOrder, params, rng, teams, champions, at_large,
                   seeded, regions, matchups>>

\* the whole output of a finished run
Output(r) == [doc |-> bracket[r], regions |-> regions[r], matchups |-> matchups[r],
              seedList |-> seeded[r]]

(***************************************************************************)
(* Specifications                                                          *)
(***************************************************************************)
\* one bracket run over every pool and parameter choice
Init ==
    /\ row = EmptyRow
    /\ score = NULL
    /\ RunInit

Next ==
    \/ Start(1)
    \/ ProjectChampions(1)
    \/ SelectAtLarge(1)
    \/ AssignSeeds(1)
    \/ PlaceIntoRegions(1)
    \/ GenerateMatchups(1)
    \/ Return(1)

Spec == Init /\ [][Next]_vars

\* two runs over the same tables: the second repeats the call of the first
\* once the first has returned
TwoPoolSizes == {7, 68}
TwoPatterns == {"mixed", "heavy"}
InitTwo ==
    /\ Init
    /\ pool \in {MakePool(pat, n) : pat \in TwoPatterns, n \in TwoPoolSizes}
    /\ tieOrder = "stable"

NextTwo ==
    \/ Next
    \/ Rerun(2, 1)
    \/ ProjectChampions(2)
    \/ SelectAtLarge(2)
    \/ AssignSeeds(2)
    \/ PlaceIntoRegions(2)
    \/ GenerateMatchups(2)
    \/ Return(2)

SpecTwo == InitTwo /\ [][NextTwo]_vars

\* two concurrent calls in shuffle mode over the same tables, their steps
\* interleaved in every order
ConcParamSets == [impl : Impls, shuffle : {TRUE}, variance : {5}, seed : {1, 2}]
InitConc ==
    /\ Init
    /\ pool \in {MakePool("heavy", 7), MakePool("mixed", 68)}
    /\ tieOrder = "stable"

Step(r) ==
    \/ StartWith(r, ConcParamSets)
    \/ ProjectChampions(r)
    \/ SelectAtLarge(r)
    \/ AssignSeeds(r)
    \/ PlaceIntoRegions(r)
    \/ GenerateMatchups(r)
    \/ Return(r)

NextConc ==
    \/ Step(1)
    \/ Step(2)

SpecConc == InitConc /\ [][NextConc]_vars

\* compute_committee_score on one resume
InitScore ==
    /\ ScoreInit
    /\ pool = <<>>
    /\ tieOrder = "stable"
    /\ params = [r \in Runs |-> NoParams]
    /\ pc = [r \in Runs |-> "idle"]
    /\ rng = [r \in Runs |-> NULL]
    /\ teams = [r \in Runs |-> <<>>]
    /\ champions = [r \in Runs |-> <<>>]
    /\ at_large = [r \in Runs |-> <<>>]
    /\ seeded = [r \in Runs |-> <<>>]
    /\ regions = [r \in Runs |-> EmptyRegions]
    /\ matchups = [r \in Runs |-> <<>>]
    /\ bracket = [r \in Runs |-> NoBracket]

NextScore == ScoreRow /\ UNCHANGED runVars

SpecScore == InitScore /\ [][NextScore]_vars

(***************************************************************************)
(* Properties of compute_committee_score (SpecScore)                       *)
(***************************************************************************)
\* a valid resume: ranks >= 1, percentages in 0..100, "W-L" records, each
\* field possibly absent
ValidRecord(q) == q.k \in {"wl", "absent"} /\ q.w >= 0 /\ q.l >= 0
ValidResume(r) ==
    /\ r.net_rank = NULL \/ r.net_rank >= 1
    /\ r.sos_rank = NULL \/ r.sos_rank >= 1
    /\ r.win_pct = NULL \/ r.win_pct \in 0..100
    /\ r.power_score = NULL \/ r.power_score \in 0..100
    /\ \A f \in {"record", "q1_record", "q2_record", "q3_record", "q4_record"} :
          ValidRecord(r[f])

\* C1: compute_committee_score returns a value in [0, 100] (0..10000
\* hundredths) for every valid resume
C1_ScoreInRange ==
    (score # NULL /\ ValidResume(row)) => (score >= 0 /\ score <= 10000)

\* a valid resume whose weighted sum is negative and is floored at 0
C1_Witness ==
    /\ score = 0 /\ ValidResume(row)
    /\ row.record = WL(8, 20) /\ row.net_rank = MaxRank /\ row.q4_record = WL(0, MaxQuad)

\* the fields Scenario A names
ScenarioAFields == {"net_rank", "q1_record", "win_pct", "power_score", "conference"}

\* a record that draws no record-floor penalty: at least 15 wins and at least
\* 55% of the games won, or a string that is not read as a record
PenaltyFree(rec) ==
    \/ rec.k = "garbage"
    \/ rec.k \in {"wl", "single"} /\ rec.w >= 15 /\ 20 * rec.w >= 11 * (rec.w + rec.l)

\* C8 as stated: Scenario A with every unnamed field absent scores >= 90
C8_Original ==
    (score # NULL /\ ScenarioANamed(row) /\ Defaulted(row, ScenarioAFields))
        => score >= 9000

\* C8 as amended: a Scenario A resume with no Q2..Q4 games scores >= 90
\* exactly when its overall record draws no record-floor penalty and its
\* sos_rank is present and at most 292; with every unnamed field absent it
\* scores exactly 73.00
C8_ScenarioA ==
    (score # NULL /\ ScenarioANamed(row)
       /\ \A f \in {"q2_record", "q3_record", "q4_record"} : parse_quad(row[f]) = <<0, 0>>)
        => /\ score >= 9000 <=>
                (PenaltyFree(row.record) /\ row.sos_rank # NULL /\ row.sos_rank <= 292)
           /\ Defaulted(row, ScenarioAFields) => score = 7300

\* Scenario A with a 30-0 record and sos_rank 292 scores exactly 90.00
C8_Witness ==
    /\ ScenarioANamed(row) /\ row.record = WL(MaxWins, 0) /\ row.sos_rank = 292
    /\ row.q2_record = Absent /\ score = 9000

\* the fields Scenario B names
ScenarioBFields == {"record", "net_rank", "q1_record"}

\* C9: Scenario B (record "8-20", net_rank 350, Q1 "0-5") scores <= 15 when
\* sos_rank is absent and win_pct and power_score are absent or 50, for any
\* conference
C9_ScenarioB ==
    (score # NULL /\ ScenarioBNamed(row)
       /\ row.sos_rank = NULL /\ row.win_pct \in {NULL, 50} /\ row.power_score \in {NULL, 50}
       /\ \A f \in {"q2_record", "q3_record", "q4_record"} : parse_quad(row[f]) = <<0, 0>>)
        => score <= 1500

\* Scenario B with every unnamed field absent has been scored
C9_Witness ==
    /\ score # NULL /\ ScenarioBNamed(row) /\ Defaulted(row, ScenarioBFields)
    /\ score = 0

\* C26: the win-percentage component of a scored resume is its win_pct
\* clipped to [0, 100] whenever win_pct is present, 0 included, likewise the
\* secondary-rating component for power_score, and 50 when the field is absent
C26_Components ==
    score # NULL =>
        /\ WinComponent(row) = (IF row.win_pct = NULL THEN 50 ELSE Clip(row.win_pct, 0, 100))
        /\ PsComponent(row) = (IF row.power_score = NULL THEN 50
                               ELSE Clip(row.power_score, 0, 100))

\* the penalty the record-floor rule names for wins and losses
FloorPenalty(wins, losses) ==
    IF wins + losses > 0 /\ 100 * wins < 50 * (wins + losses) THEN -25
    ELSE IF wins < 15 THEN -15
    ELSE IF wins + losses > 0 /\ 100 * wins < 55 * (wins + losses) THEN -8
    ELSE 0

\* C27 as stated: the record-floor penalty of a scored resume follows the
\* rule, and is 0 for a record that is unparseable or absent
C27_Original ==
    score # NULL =>
        RecordPenalty(row.record) =
            (IF row.record.k \in {"garbage", "absent"} THEN 0
             ELSE FloorPenalty(row.record.w, row.record.l))

\* C27: the record-floor penalty of a scored resume follows the rule; a
\* record that int() rejects draws 0, an absent record is read as "0-0" and
\* draws -15, a record without a dash counts as wins with no losses
C27_RecordPenalty ==
    score # NULL =>
        RecordPenalty(row.record) =
            (IF row.record.k = "garbage" THEN 0
             ELSE IF row.record.k = "absent" THEN FloorPenalty(0, 0)
             ELSE FloorPenalty(row.record.w, row.record.l))

\* a scored resume without a record, penalised as a team of fewer than 15 wins
C27_Witness ==
    /\ score # NULL /\ row.record = Absent
    /\ RecordPenalty(row.record) = -15

(***************************************************************************)
(* Properties of a bracket run (Spec)                                      *)
(***************************************************************************)
\* the steps of run 1 that have been taken
Projected == pc[1] \in {"champions", "atlarge", "seeded", "placed", "matched"}
              \/ (pc[1] = "done" /\ teams[1] # <<>>)
Seeded == pc[1] \in {"seeded", "placed", "matched"} \/ (pc[1] = "done" /\ teams[1] # <<>>)
Placed == pc[1] \in {"placed", "matched"} \/ (pc[1] = "done" /\ teams[1] # <<>>)
Matched == pc[1] = "matched" \/ (pc[1] = "done" /\ teams[1] # <<>>)

\* the number of teams of the scored table that hold no auto-bid
NonAutoBid == Cardinality({i \in 1..Len(teams[1]) : ~teams[1][i].is_auto_bid})

\* C2 as stated: every output has total = autoBids + atLarge and
\* atLarge = 68 - autoBids
C2_Original ==
    pc[1] = "done" =>
        /\ bracket[1].total = bracket[1].autoBids + bracket[1].atLarge
        /\ bracket[1].atLarge = 68 - bracket[1].autoBids

\* C2 as amended: every output has total = autoBids + atLarge; with at most
\* 68 auto-bids, atLarge is 68 - autoBids when the table holds that many
\* teams without an auto-bid and the number of such teams otherwise
C2_FieldCounts ==
    pc[1] = "done" =>
        /\ bracket[1].total = bracket[1].autoBids + bracket[1].atLarge
        /\ bracket[1].autoBids <= 68 =>
              bracket[1].atLarge = Min(68 - bracket[1].autoBids, NonAutoBid)

\* a shuffled run over a table large enough: 68 teams, some of them auto-bids
C2_Witness ==
    /\ pc[1] = "done" /\ params[1].shuffle /\ params[1].variance > 0
    /\ bracket[1].autoBids > 0 /\ bracket[1].total = 68
    /\ bracket[1].atLarge = 68 - bracket[1].autoBids
    /\ NonAutoBid > bracket[1].atLarge

\* C4: the overall_rank values of the seeded list are 1..n in list order
\* (so no two entries share one), in deterministic and in randomized mode
C4_OverallRanks ==
    Seeded =>
        /\ \A i \in 1..Len(seeded[1]) : seeded[1][i].overall_rank = i
        /\ \A i, j \in 1..Len(seeded[1]) :
              seeded[1][i].overall_rank = seeded[1][j].overall_rank => i = j

\* a randomized run whose noise moved a team above a better-scored one
C4_Witness ==
    /\ pc[1] = "seeded" /\ rng[1] # NULL /\ Len(seeded[1]) = 68
    /\ \E i \in 1..67 : seeded[1][i].committee_score < seeded[1][i + 1].committee_score
    /\ \A i \in 1..68 : seeded[1][i].overall_rank = i

\* C5: in deterministic mode the seeded list is in committee_score
\* descending order and the team at 0-based position i has seed
\* min(16, i // 4 + 1); seeds never decrease along the list, lines 1..15 hold
\* at most 4 teams and every rank beyond 60 is on line 16
C5_DeterministicSeeds ==
    (Seeded /\ ~params[1].shuffle) =>
        LET sd == seeded[1]
            n == Len(sd)
        IN  /\ \A i \in 1..(n - 1) : sd[i].committee_score >= sd[i + 1].committee_score
            /\ \A i \in 1..n :
                  sd[i].seed = (IF (i - 1) \div 4 + 1 < 16 THEN (i - 1) \div 4 + 1 ELSE 16)
            /\ \A i \in 1..(n - 1) : sd[i].seed <= sd[i + 1].seed
            /\ \A line \in 1..15 : Cardinality({i \in 1..n : sd[i].seed = line}) <= 4
            /\ \A i \in 1..n : sd[i].overall_rank > 60 => sd[i].seed = 16

\* a deterministic run that seeded 68 teams, 8 of them on line 16
C5_Witness ==
    /\ pc[1] = "seeded" /\ ~params[1].shuffle /\ Len(seeded[1]) = 68
    /\ Cardinality({i \in 1..68 : seeded[1][i].seed = 16}) = 8
    /\ seeded[1][1].committee_score > seeded[1][68].committee_score

\* the teams of a conference in region ri
RegionConfCount(ri, conf) ==
    Cardinality({k \in 1..Len(regions[1][ri]) : regions[1][ri][k].conference = conf})

\* the conferences of the seeded field
FieldConferences == {seeded[1][i].conference : i \in 1..Len(seeded[1])}

\* max(2, ceil(conference_total / 4) + 1)
RegionCap(conf) ==
    LET total == Cardinality({i \in 1..Len(seeded[1]) : seeded[1][i].conference = conf})
        ceil4 == IF total % 4 = 0 THEN total \div 4 ELSE total \div 4 + 1
    IN  IF ceil4 + 1 > 2 THEN ceil4 + 1 ELSE 2

C7_FullBracketMatchups ==
    (Matched /\ \A line \in 1..16 :
                    Cardinality({i \in 1..Len(seeded[1]) : seeded[1][i].seed = line}) = 4)
        => /\ Len(matchups[1]) = 32
           /\ \A ri \in 1..4 :
                 Cardinality({g \in 1..Len(matchups[1]) :
                                 matchups[1][g].region = REGIONS[ri]}) = 8

\* the matchups of a run that seeded exactly 64 teams
C7_Witness ==
    /\ pc[1] = "matched" /\ Len(seeded[1]) = 64
    /\ \A line \in 1..16 : Cardinality({i \in 1..64 : seeded[1][i].seed = line}) = 4
    /\ Len(matchups[1]) = 32

\* the standings rows (indices of the table) of a conference
StandingRowsOf(conf) ==
    {i \in 1..Len(pool) : InStandings(pool[i], params[1].impl) /\ pool[i].conference = conf}

\* row j comes before row i in the order conf_pct descending, net_rank ascending
Before(j, i) ==
    \/ pool[j].conf_pct > pool[i].conf_pct
    \/ pool[j].conf_pct = pool[i].conf_pct /\ pool[j].net_rank < pool[i].net_rank

\* C10: there is exactly one champion for every conference that has a
\* standings row and for no other; the champion is a row of that conference
\* with fewer than 6 rows before it in the order (conf_pct descending,
\* net_rank ascending), and the sole row of a one-row conference
C10_Champions ==
    Projected =>
        LET ch == champions[1]
        IN  /\ {ch[c].conference : c \in 1..Len(ch)}
                 = {pool[i].conference :
                      i \in {k \in 1..Len(pool) : InStandings(pool[k], params[1].impl)}}
            /\ \A c, d \in 1..Len(ch) : ch[c].conference = ch[d].conference => c = d
            /\ \A c \in 1..Len(ch) :
                  /\ ch[c].team \in {pool[i].id : i \in StandingRowsOf(ch[c].conference)}
                  /\ \A i \in StandingRowsOf(ch[c].conference) :
                        pool[i].id = ch[c].team =>
                            Cardinality({j \in StandingRowsOf(ch[c].conference) :
                                            Before(j, i)}) < 6
                  /\ Cardinality(StandingRowsOf(ch[c].conference)) = 1 =>
                        \A i \in StandingRowsOf(ch[c].conference) : pool[i].id = ch[c].team

\* champions drawn at random: a conference of more than 6 rows whose champion
\* is not its first row, next to a conference of a single row
C10_Witness ==
    /\ pc[1] = "champions" /\ rng[1] # NULL
    /\ \E c \in 1..Len(champions[1]) :
          /\ Cardinality(StandingRowsOf(champions[1][c].conference)) > 6
          /\ \E j \in StandingRowsOf(champions[1][c].conference) :
                \E i \in StandingRowsOf(champions[1][c].conference) :
                    pool[i].id = champions[1][c].team /\ Before(j, i)
    /\ \E c \in 1..Len(champions[1]) :
          Cardinality(StandingRowsOf(champions[1][c].conference)) = 1

(***************************************************************************)
(* Properties of a repeated run (SpecTwo)                                  *)
(***************************************************************************)
BothDone == pc[1] = "done" /\ pc[2] = "done"

\* the two runs agree on champions, at-large list, seeding, placement, matchups
SameOutput ==
    /\ champions[1] = champions[2]
    /\ at_large[1] = at_large[2]
    /\ seeded[1] = seeded[2]
    /\ regions[1] = regions[2]
    /\ matchups[1] = matchups[2]
    /\ Output(1) = Output(2)

\* C3 as stated: two runs with identical tables, seed and variance produce
\* identical output
C3_Original == BothDone => SameOutput

\* C3 as amended: two runs with identical tables, seed and variance produce
\* identical output when shuffle is off or the seed is an integer
C3_Reproducible ==
    (BothDone /\ (~params[1].shuffle \/ params[1].seed # NULL)) => SameOutput

\* Scenario D: shuffle mode, variance 0.5, a fixed seed, run twice over 68
\* teams, the draws having changed the seeding order
C3_Witness ==
    /\ BothDone /\ params[1].shuffle /\ params[1].variance = 5 /\ params[1].seed = 1
    /\ params[2] = params[1] /\ Len(seeded[1]) = 68
    /\ \E i \in 1..67 : seeded[1][i].committee_score < seeded[1][i + 1].committee_score
    /\ SameOutput

(***************************************************************************)
(* Properties of the single steps of a run (Spec)                          *)
(***************************************************************************)
\* the stochastic steps of run 1 draw nothing: variance 0 or no generator
Deterministic == EffectiveVariance(params[1]) = 0 \/ rng[1] = NULL

\* C11: with variance 0 or without a generator, project_conference_champions
\* gives every conference a team of its standings that no other row of the
\* conference precedes in the order (conf_pct descending, net_rank ascending,
\* an unknown net_rank being 999), and leaves the generator as it found it
C11_DeterministicChampions ==
    [][(pc[1] = "scored" /\ pc'[1] = "champions" /\ Deterministic)
          => /\ rng'[1] = rng[1]
             /\ \A c \in 1..Len(champions'[1]) :
                   \E i \in StandingRowsOf(champions'[1][c].conference) :
                       /\ pool[i].id = champions'[1][c].team
                       /\ \A j \in StandingRowsOf(champions'[1][c].conference) :
                             ~Before(j, i)]_vars

\* champions projected with variance 0 from a live generator; a conference
\* has two rows of equal conf_pct and the one of lower net_rank is champion
C11_Witness ==
    /\ pc[1] = "champions" /\ rng[1] # NULL /\ EffectiveVariance(params[1]) = 0
    /\ \E c \in 1..Len(champions[1]) :
          \E i, j \in StandingRowsOf(champions[1][c].conference) :
              /\ pool[i].id = champions[1][c].team
              /\ i # j /\ pool[j].conf_pct = pool[i].conf_pct
              /\ pool[j].net_rank > pool[i].net_rank

\* select_at_large has returned in run 1
Selected == pc[1] \in {"atlarge", "seeded", "placed", "matched"}
              \/ (pc[1] = "done" /\ teams[1] # <<>>)

\* the rows of the scored table that hold no auto-bid: the candidates
Candidates == {i \in 1..Len(teams[1]) : ~teams[1][i].is_auto_bid}

\* the candidate rows whose team was selected at large
SelectedRows == {i \in Candidates : \E k \in 1..Len(at_large[1]) : at_large[1][k] = teams[1][i].id}

\* N, the number of at-large spots that run 1 asks select_at_large for
AutoBidCount == Cardinality({champions[1][c].team : c \in 1..Len(champions[1])})
Spots == NAtLarge(params[1].impl, AutoBidCount)

\* the committee_score of the candidate of identifier id
ScoreOf(id) == teams[1][CHOOSE i \in Candidates : teams[1][i].id = id].committee_score

\* the identifiers of a list are those of candidates and pairwise distinct
DistinctCandidates ==
    /\ \A k \in 1..Len(at_large[1]) : \E i \in Candidates : teams[1][i].id = at_large[1][k]
    /\ \A k, l \in 1..Len(at_large[1]) : at_large[1][k] = at_large[1][l] => k = l

\* C12: in deterministic mode select_at_large, asked for N >= 0 teams,
\* returns the N non-auto-bid
\* teams of highest committee_score in descending score order, all of them
\* when fewer than N exist, none an auto-bid team and none twice
C12_DeterministicAtLarge ==
    (Selected /\ Deterministic /\ Spots >= 0) =>
        /\ Len(at_large[1]) = (IF Spots < Cardinality(Candidates)
                               THEN Spots ELSE Cardinality(Candidates))
        /\ DistinctCandidates
        /\ LET chosen == SelectedRows
               others == Candidates \ chosen
           IN  \A i \in chosen : \A j \in others :
                   teams[1][i].committee_score >= teams[1][j].committee_score
        /\ \A k \in 1..(Len(at_large[1]) - 1) :
              ScoreOf(at_large[1][k]) >= ScoreOf(at_large[1][k + 1])

\* a deterministic selection that leaves candidates out
C12_Witness ==
    /\ pc[1] = "atlarge" /\ Deterministic
    /\ Spots > 0 /\ Len(at_large[1]) = Spots
    /\ Cardinality(Candidates) > Spots
    /\ LET chosen == SelectedRows
           others == Candidates \ chosen
       IN  \E i \in chosen : \E j \in others :
               teams[1][i].committee_score > teams[1][j].committee_score

\* C13: in randomized mode, with at least N candidates, select_at_large
\* returns exactly N pairwise distinct identifiers, none of an auto-bid team
C13_RandomizedAtLarge ==
    (Selected /\ ~Deterministic /\ Spots >= 0 /\ Cardinality(Candidates) >= Spots)
        => (Len(at_large[1]) = Spots /\ DistinctCandidates)

\* a randomized selection of N teams that passed over a better-scored
\* candidate for a worse one
C13_Witness ==
    /\ pc[1] = "atlarge" /\ ~Deterministic
    /\ Spots > 6 /\ Cardinality(Candidates) >= Spots + 6 /\ Len(at_large[1]) = Spots
    /\ LET chosen == SelectedRows
           others == Candidates \ chosen
       IN  \E i \in chosen : \E j \in others :
               teams[1][i].committee_score < teams[1][j].committee_score

\* the candidates scored no lower than row i, other than i
NotBelow(i) ==
    {j \in Candidates \ {i} : teams[1][j].committee_score >= teams[1][i].committee_score}

\* the candidates scored higher than row i
Above(i) == {j \in Candidates : teams[1][j].committee_score > teams[1][i].committee_score}

\* C14: in randomized mode every candidate that is among the top N - 6 by
\* committee_score is selected, and every selected team is among the top
\* N + 6 candidates
C14_LocksAndBubble ==
    (Selected /\ ~Deterministic /\ Spots >= 0) =>
        /\ LET chosen == SelectedRows
           IN  /\ \A i \in Candidates : Cardinality(NotBelow(i)) < Spots - 6 => i \in chosen
               /\ \A i \in chosen : Cardinality(Above(i)) < Spots + 6

\* a randomized selection with locks, a full bubble of 12 and a team taken
\* from the lower half of the bubble
C14_Witness ==
    /\ pc[1] = "atlarge" /\ ~Deterministic
    /\ Spots > 6 /\ Cardinality(Candidates) >= Spots + 6
    /\ LET chosen == SelectedRows
       IN  /\ \E i \in chosen : Cardinality(Above(i)) >= Spots
           /\ \E i \in chosen : Cardinality(NotBelow(i)) < Spots - 6
           /\ \E i \in Candidates \ chosen : Cardinality(NotBelow(i)) >= Spots + 6

\* the places (region, position) that hold the team of identifier id
PlacesOf(id) ==
    {<<ri, k>> \in (1..NumRegions) \X (1..Len(seeded[1])) :
        k <= Len(regions[1][ri]) /\ regions[1][ri][k].id = id}

\* C15: after place_into_regions every team of the seeded list is in
\* exactly one region, once, and the regions hold no other team
C15_EveryTeamInOneRegion ==
    Placed =>
        /\ \A i \in 1..Len(seeded[1]) : Cardinality(PlacesOf(seeded[1][i].id)) = 1
        /\ \A ri \in 1..NumRegions : \A k \in 1..Len(regions[1][ri]) :
              \E i \in 1..Len(seeded[1]) : seeded[1][i] = regions[1][ri][k]

\* a placed field whose last seed line is a partial chunk
C15_Witness ==
    /\ pc[1] = "placed"
    /\ Len(seeded[1]) % 4 # 0 /\ Len(seeded[1]) > 4
    /\ \A i \in 1..Len(seeded[1]) : Cardinality(PlacesOf(seeded[1][i].id)) = 1

\* the teams of region ri on seed line sn
OnLine(ri, sn) == {k \in 1..Len(regions[1][ri]) : regions[1][ri][k].seed = sn}

\* C16: with a field of at most 64 teams no region holds two teams of one
\* seed line, and with exactly 64 every region holds one team on each of
\* the 16 lines
C16_OneTeamPerSeedLine ==
    (Placed /\ Len(seeded[1]) <= 64) =>
        /\ \A ri \in 1..NumRegions : \A sn \in 1..MaxSeedLine :
              Cardinality(OnLine(ri, sn)) <= 1
        /\ Len(seeded[1]) = 64 =>
              \A ri \in 1..NumRegions : \A sn \in 1..MaxSeedLine :
                  Cardinality(OnLine(ri, sn)) = 1

\* a placed field of exactly 64 teams, 16 in every region
C16_Witness ==
    /\ pc[1] = "placed" /\ Len(seeded[1]) = 64
    /\ \A ri \in 1..NumRegions : Len(regions[1][ri]) = 16

\* C17: a finished run without shuffle reports variance 0 and mode
\* 'deterministic' whatever variance it was called with, so that two such
\* runs that differ in the variance argument alone return one document
C17_VarianceIgnored ==
    (pc[1] = "done" /\ ~params[1].shuffle)
        => (bracket[1].variance = 0 /\ bracket[1].mode = "deterministic")

\* C18: on an empty team table a call of the server's run_bracketology
\* returns at once, with a field of 0 teams, four empty regions, no
\* matchups, an empty seed list and no conference bids
C18_EmptyInput ==
    (pool = <<>> /\ params[1].impl = "server" /\ pc[1] # "idle") =>
        /\ pc[1] = "done"
        /\ bracket[1].total = 0 /\ bracket[1].autoBids = 0 /\ bracket[1].atLarge = 0
        /\ bracket[1].conferenceBids = <<>>
        /\ regions[1] = EmptyRegions
        /\ matchups[1] = <<>>
        /\ seeded[1] = <<>>

\* the server called in shuffle mode on an empty table has returned
C18_Witness ==
    /\ pool = <<>> /\ params[1].impl = "server" /\ params[1].shuffle
    /\ pc[1] = "done" /\ bracket[1].mode = "deterministic" /\ bracket[1].total = 0

\* the identifiers of the teams of region ri on seed line sn
IdsOnLine(ri, sn) == {regions[1][ri][k].id : k \in OnLine(ri, sn)}

\* C20: the games are, region by region in the order East, West, South,
\* Midwest and pair by pair in the order of the pairing table, one game for
\* every pair of seeds the region holds both of; the two teams of a game are
\* teams of its region on its two seeds; no team plays two games
C20_Matchups ==
    Matched =>
        LET order == <<"East", "West", "South", "Midwest">>
            table == << <<1, 16>>, <<8, 9>>, <<5, 12>>, <<4, 13>>,
                        <<2, 15>>, <<7, 10>>, <<6, 11>>, <<3, 14>> >>
            slots == {sl \in (1..4) \X (1..8) :
                         /\ IdsOnLine(sl[1], table[sl[2]][1]) # {}
                         /\ IdsOnLine(sl[1], table[sl[2]][2]) # {}}
            earlier(sl) == {o \in slots : o[1] < sl[1] \/ (o[1] = sl[1] /\ o[2] < sl[2])}
            games == matchups[1]
        IN  /\ Len(games) = Cardinality(slots)
            /\ \A sl \in slots :
                  LET g == games[Cardinality(earlier(sl)) + 1]
                  IN  /\ g.region = order[sl[1]]
                      /\ g.team1Seed = table[sl[2]][1] /\ g.team2Seed = table[sl[2]][2]
                      /\ g.team1 \in IdsOnLine(sl[1], g.team1Seed)
                      /\ g.team2 \in IdsOnLine(sl[1], g.team2Seed)
            /\ Cardinality({games[k].team1 : k \in 1..Len(games)}
                            \cup {games[k].team2 : k \in 1..Len(games)}) = 2 * Len(games)

\* matchups of a field that leaves pairs without a game: some region holds
\* one seed of a pair and not the other, and another pair has its game
C20_Witness ==
    /\ pc[1] = "matched" /\ Len(matchups[1]) > 0 /\ Len(matchups[1]) < 32
    /\ \E ri \in 1..4 : IdsOnLine(ri, 1) # {} /\ IdsOnLine(ri, 16) = {}
    /\ \E k \in 1..Len(matchups[1]) : matchups[1][k].region = "Midwest"

\* the positions of the seed list that hold the team of identifier id
SeedPositions(id) == {i \in 1..Len(seeded[1]) : seeded[1][i].id = id}

\* C28: the seed list of a returned run is exactly the field: every
\* projected champion and every at-large selection is in it once, its length
\* is field.total, and an entry is flagged is_auto_bid exactly when its team
\* is a projected champion
C28_SeedListIsField ==
    (pc[1] = "done" /\ teams[1] # <<>>) =>
        /\ \A id \in field_teams(1) : Cardinality(SeedPositions(id)) = 1
        /\ Len(seeded[1]) = bracket[1].total
        /\ \A i \in 1..Len(seeded[1]) :
              seeded[1][i].is_auto_bid <=> seeded[1][i].id \in auto_bid_teams(1)

\* the rows of the scored table whose team is in the field: the teams that
\* deterministic seeding returns
FieldRows == {i \in 1..Len(teams[1]) : teams[1][i].id \in field_teams(1)}

\* C29: randomized seeding returns the teams of the field, each once, with
\* the committee_score, conference, record and auto-bid flag of the scored
\* table, and reports no noisy score
C29_NoiseReordersOnly ==
    (Seeded /\ ~Deterministic) =>
        /\ Len(seeded[1]) = Cardinality(FieldRows)
        /\ \A i \in FieldRows :
              \E k \in 1..Len(seeded[1]) :
                  /\ seeded[1][k].id = teams[1][i].id
                  /\ seeded[1][k].committee_score = teams[1][i].committee_score
                  /\ seeded[1][k].conference = teams[1][i].conference
                  /\ seeded[1][k].record = teams[1][i].record
                  /\ seeded[1][k].is_auto_bid = teams[1][i].is_auto_bid
                  /\ "seed_score" \notin DOMAIN seeded[1][k]

\* a randomized seeding of 68 teams that the noise took out of score order
C29_Witness ==
    /\ pc[1] = "seeded" /\ ~Deterministic /\ Len(seeded[1]) = 68
    /\ Cardinality(FieldRows) = 68
    /\ \E k \in 1..67 : seeded[1][k].committee_score < seeded[1][k + 1].committee_score

(***************************************************************************)
(* Properties of the placement loop (Spec): the chunks of the seeded list  *)
(* and the regions each chunk finds, for the list place_into_regions has   *)
(* just placed                                                             *)
(***************************************************************************)
JustPlaced == pc[1] = "placed"

\* the one-to-one assignments of 4 chunk positions to the 4 regions:
\* f[ri] is the chunk position of the team that region ri receives
Bijections == {f \in [1..4 -> 1..4] : \A a, b \in 1..4 : f[a] = f[b] => a = b}

\* C21: for every full chunk the regions after the chunk are the regions
\* before it with one team of the chunk appended to each, and the total
\* conflict score of that assignment against the regions before the chunk
\* is at most the total of every one-to-one assignment
C21_MinimumConflict ==
    JustPlaced =>
        LET sd == seeded[1]
            chunks == LineChunks(1, sd)
            trace == PlacementTrace(chunks, EmptyRegions, sd)
        IN  /\ \A ri \in 1..4 : regions[1][ri] = SortBySeed(trace[Len(trace)][ri])
            /\ \A k \in 1..Len(chunks) :
                  Len(chunks[k]) = 4 =>
                      LET cs == [ti \in 1..4 |-> [ri \in 1..4 |->
                                    conflict_score(chunks[k][ti], trace[k][ri],
                                                   ConfCap(sd, chunks[k][ti].conference))]
                                    \o <<>>] \o <<>>
                          total(f) == cs[f[1]][1] + cs[f[2]][2] + cs[f[3]][3] + cs[f[4]][4]
                      IN  \E f \in Bijections :
                              /\ \A ri \in 1..4 :
                                    trace[k + 1][ri] = Append(trace[k][ri], chunks[k][f[ri]])
                              /\ \A h \in Bijections : total(f) <= total(h)

\* a placement of 68 teams in which some full chunk was not dealt in list
\* order: its first team did not go to the first region
C21_Witness ==
    /\ JustPlaced /\ Len(seeded[1]) = 68
    /\ \E k \in 0..16 : \A j \in 1..Len(regions[1][1]) :
          regions[1][1][j].overall_rank # 4 * k + 1

\* C30: after every chunk of the placement loop, and in the regions
\* returned, the sizes of two regions differ by at most 1
C30_BalancedRegions ==
    JustPlaced =>
        LET sd == seeded[1]
            trace == PlacementTrace(LineChunks(1, sd), EmptyRegions, sd)
        IN  /\ \A k \in 1..Len(trace) : \A ri, rj \in 1..4 :
                  Len(trace[k][ri]) - Len(trace[k][rj]) <= 1
            /\ \A ri, rj \in 1..4 : Len(regions[1][ri]) - Len(regions[1][rj]) <= 1

\* a placed field of 65 to 67 teams: the last chunk is partial and the
\* regions end with 16 or 17 teams
C30_Witness ==
    /\ JustPlaced /\ Len(seeded[1]) > 64 /\ Len(seeded[1]) < 68
    /\ \E ri \in 1..4 : Len(regions[1][ri]) = 17
    /\ \E ri \in 1..4 : Len(regions[1][ri]) = 16

\* the teams of rt that sit on a seed line before line sn
PreviousLines(rt, sn) == SelectSeq(rt, LAMBDA e : e.seed < sn)

\* the conflict score of chunk member t against region ri when chunk k is
\* processed equals its score against the region's teams of previous lines
OnlyPreviousLines(sd, trace, k, t, ri) ==
    conflict_score(t, trace[k][ri], ConfCap(sd, t.conference))
        = conflict_score(t, PreviousLines(trace[k][ri], t.seed), ConfCap(sd, t.conference))

\* C22 as stated: every conflict score of the placement loop is the score
\* against the teams of previous seed lines, no team of the candidate's own
\* line contributing, also when line 16 holds more than 4 teams
C22_Original ==
    JustPlaced =>
        LET sd == seeded[1]
            chunks == LineChunks(1, sd)
            trace == PlacementTrace(chunks, EmptyRegions, sd)
        IN  \A k \in 1..Len(chunks) : \A ti \in 1..Len(chunks[k]) : \A ri \in 1..4 :
                OnlyPreviousLines(sd, trace, k, chunks[k][ti], ri)

\* C22: a region that a chunk finds holds teams of earlier chunks only, none
\* of the chunk itself; for the candidates of ranks 1 to 64 every conflict
\* score is the score against the teams of previous seed lines; only the
\* candidates beyond rank 64 find 16 seeds of their own line in the regions
C22_PreviousChunksOnly ==
    JustPlaced =>
        LET sd == seeded[1]
            chunks == LineChunks(1, sd)
            trace == PlacementTrace(chunks, EmptyRegions, sd)
        IN  \A k \in 1..Len(chunks) : \A ti \in 1..Len(chunks[k]) : \A ri \in 1..4 :
                LET t == chunks[k][ti]
                IN  /\ \A j \in 1..Len(trace[k][ri]) :
                          /\ trace[k][ri][j].overall_rank < chunks[k][1].overall_rank
                          /\ trace[k][ri][j].seed < t.seed
                               \/ (t.overall_rank > 64 /\ trace[k][ri][j].seed = 16)
                    /\ t.overall_rank <= 64 => OnlyPreviousLines(sd, trace, k, t, ri)

\* a placed field of more than 64 teams where a 16 seed beyond rank 64 is
\* charged for a 16 seed of its conference that an earlier chunk committed
C22_Witness ==
    /\ JustPlaced /\ Len(seeded[1]) > 64
    /\ LET sd == seeded[1]
           chunks == LineChunks(1, sd)
           trace == PlacementTrace(chunks, EmptyRegions, sd)
       IN  \E ti \in 1..Len(chunks[17]) : \E ri \in 1..4 :
               ~OnlyPreviousLines(sd, trace, 17, chunks[17][ti], ri)

\* the games of region ri
GamesOf(ri) == {g \in 1..Len(matchups[1]) : matchups[1][g].region = REGIONS[ri]}

\* no play-in: 8 games in every region, none between two 16 seeds
NoPlayIn ==
    /\ \A ri \in 1..4 : Cardinality(GamesOf(ri)) = 8
    /\ \A g \in 1..Len(matchups[1]) :
          ~(matchups[1][g].team1Seed = 16 /\ matchups[1][g].team2Seed = 16)

\* the field has 65 to 68 teams and its matchups are generated
Overflowed == pc[1] = "matched" /\ Len(seeded[1]) > 64 /\ Len(seeded[1]) <= 68

\* C25 as stated: with 65 to 68 teams the teams beyond the first 4 of seed
\* line 16 are placed by the greedy path, and there is no play-in game
C25_Original ==
    Overflowed =>
        LET sd == seeded[1]
            chunks == LineChunks(1, sd)
            trace == PlacementTrace(chunks, EmptyRegions, sd)
        IN  /\ trace[18] = PlaceGreedy(chunks[17], trace[17], {}, sd)
            /\ NoPlayIn

\* C25: with 65 to 68 teams the teams beyond the first 4 of seed line 16
\* are one more chunk: 1 to 3 teams are placed by the greedy path, 4 teams
\* by the search over the permutations; there is no play-in game
C25_OverflowChunk ==
    Overflowed =>
        LET sd == seeded[1]
            chunks == LineChunks(1, sd)
            trace == PlacementTrace(chunks, EmptyRegions, sd)
        IN  /\ Len(chunks) = 17 /\ Len(chunks[17]) = Len(sd) - 64
            /\ trace[18] = (IF Len(sd) < 68 THEN PlaceGreedy(chunks[17], trace[17], {}, sd)
                            ELSE PlaceFull(chunks[17], trace[17], sd))
            /\ \A ri \in 1..4 : regions[1][ri] = SortBySeed(trace[18][ri])
            /\ NoPlayIn

\* a field of 68 teams whose 4 overflow teams the permutations placed
\* otherwise than the greedy path would have
C25_Witness ==
    /\ Overflowed /\ Len(seeded[1]) = 68 /\ NoPlayIn
    /\ LET sd == seeded[1]
           chunks == LineChunks(1, sd)
           trace == PlacementTrace(chunks, EmptyRegions, sd)
       IN  trace[18] # PlaceGreedy(chunks[17], trace[17], {}, sd)

\* the region that holds the team of overall rank rk
RegionOfRank(rk) ==
    CHOOSE ri \in 1..4 : \E j \in 1..Len(regions[1][ri]) : regions[1][ri][j].overall_rank = rk

\* the teams of the seeded list come from pairwise distinct conferences
DistinctConferences ==
    \A i, j \in 1..Len(seeded[1]) :
        seeded[1][i].conference = seeded[1][j].conference => i = j

\* C23: without conference conflicts the seed lines are dealt to the regions
\* in alternating directions: the odd lines in region order, the even lines
\* in reverse, so that rank 5 joins rank 4 and rank 8 joins rank 1
C23_SnakeDraft ==
    (JustPlaced /\ DistinctConferences /\ Len(seeded[1]) >= 8) =>
        /\ RegionOfRank(5) = RegionOfRank(4)
        /\ RegionOfRank(8) = RegionOfRank(1)
        /\ \A rk \in 1..Len(seeded[1]) :
              rk <= 64 =>
                  RegionOfRank(rk) = (IF ((rk - 1) \div 4) % 2 = 0
                                      THEN ((rk - 1) % 4) + 1 ELSE 4 - ((rk - 1) % 4))

\* C24: no region holds two teams of one conference with seeds in the same
\* bracket half, nor as seeds 1 and 2 or as seeds 3 and 4
C24_ConferenceSeparation ==
    JustPlaced =>
        \A ri \in 1..4 : \A j, k \in 1..Len(regions[1][ri]) :
            (j < k /\ regions[1][ri][j].conference = regions[1][ri][k].conference) =>
                LET a == regions[1][ri][j].seed
                    b == regions[1][ri][k].seed
                IN  /\ ~({a, b} \subseteq {1, 16, 8, 9, 4, 13, 5, 12})
                    /\ ~({a, b} \subseteq {2, 15, 7, 10, 3, 14, 6, 11})
                    /\ {a, b} # {1, 2} /\ {a, b} # {3, 4}

(***************************************************************************)
(* Properties of concurrent runs (SpecConc)                                *)
(***************************************************************************)
\* the output of a call with parameters p and initial generator state g0
\* that runs from start to return on its own
RunAlone(p, g0) ==
    IF pool = <<>> /\ p.impl = "server"
    THEN [doc |-> [mode |-> "deterministic", variance |-> 0, seed |-> p.seed,
                   total |-> 0, autoBids |-> 0, atLarge |-> 0, conferenceBids |-> <<>>],
          regions |-> EmptyRegions, matchups |-> <<>>, seedList |-> <<>>]
    ELSE
    LET v == EffectiveVariance(p)
        scored == ScoredTeams(Teams(pool, p.impl), tieOrder)
        ch == project_conference_champions(Standings(pool, p.impl), scored, g0, v)
        auto == Range([i \in 1..Len(ch.champions) |-> ch.champions[i].team])
        tm == [i \in 1..Len(scored) |->
                 [scored[i] EXCEPT !.is_auto_bid = (scored[i].id \in auto)]] \o <<>>
        al == select_at_large(tm, auto, NAtLarge(p.impl, Cardinality(auto)), ch.rng, v,
                              p.impl, tieOrder)
        field == auto \cup Range(al.selected)
        sd == assign_seeds(tm, field, al.rng, v, tieOrder)
        regs == place_into_regions(sd.seeded)
    IN  [doc |-> [mode |-> IF p.shuffle THEN "shuffle" ELSE "deterministic",
                  variance |-> IF p.impl = "server"
                               THEN (IF p.shuffle THEN p.variance ELSE 0) ELSE v,
                  seed |-> p.seed,
                  total |-> Cardinality(auto) + Len(al.selected),
                  autoBids |-> Cardinality(auto),
                  atLarge |-> Len(al.selected),
                  conferenceBids |-> ConferenceBids(tm, field)],
         regions |-> regs, matchups |-> generate_matchups(regs), seedList |-> sd.seeded]

\* C19: when two runs whose steps interleaved have both returned, the
\* output of each is the output of the same call run alone
C19_NoInterference ==
    BothDone =>
        \A r \in Runs : \E g0 \in InitialRng(params[r]) : Output(r) = RunAlone(params[r], g0)

\* two calls of one implementation that differ in their seed have both
\* returned, with different brackets of 68 teams
C19_Witness ==
    /\ BothDone /\ params[1].seed # params[2].seed /\ params[1].impl = params[2].impl
    /\ Len(seeded[1]) = 68
    /\ Output(1) # Output(2)


====
